---- MODULE Spec2Model ----
(***************************************************************************)
(* Model of bibstrip.py: a filter that reads BibTeX entries, drops a set   *)
(* of fields from each entry, optionally sorts the entries by label and    *)
(* writes them back.                                                       *)
(*                                                                         *)
(* A Python str is modelled as a sequence of one-character strings, a      *)
(* text line as such a sequence ending in "\n" (as file iteration yields   *)
(* it), the OrderedDict as a sequence of [key, val] records with distinct  *)
(* keys, and the file written with writelines as the sequence of the       *)
(* strings handed to it.                                                   *)
(***************************************************************************)
EXTENDS Integers, Sequences, FiniteSets, TLC

VARIABLES
    remove_fields,    \* the names given with --remove-fields (line 58)
    sort,             \* not --dont-sort (line 59)
    infile,           \* the lines the input iterator has not yet yielded
    outfile,          \* the strings written so far, in order
    pc,               \* the driver's position
    entry_lines,      \* the lines next_entry_lines returned last
    broke,            \* whether that call left its loop by `break`
    li,               \* group_entries: index of the next line of its loop
    entry_dict,       \* group_entries: the OrderedDict being built
    num_open_braces,  \* group_entries: its depth counter
    skip_key,         \* group_entries: the skip flag
    cur_key,          \* group_entries: the current key
    entries,          \* sort mode: the list of entry dicts
    sorted_entries,   \* sort mode: the sorted list
    di,               \* sort mode: index of the next entry to dump
    count,            \* the driver's count
    reported,         \* the count printed on stderr, or -1 before that
    input,            \* history: the whole input of the first run
    scanned,          \* history: the non-empty results of next_entry_lines
    grouped,          \* history: the dicts group_entries returned
    written,          \* history: the dicts handed to dump_entry
    last_decl,        \* history: the last field declaration group_entries saw
    run,              \* 1 in the first run of the filter, 2 in a rerun
    out1              \* the output of the first run, kept for the rerun

vars == <<remove_fields, sort, infile, outfile, pc, entry_lines, broke, li,
          entry_dict, num_open_braces, skip_key, cur_key, entries,
          sorted_entries, di, count, reported, input, scanned, grouped,
          written, last_decl, run, out1>>

(***************************************************************************)
(* Python str operations, on sequences of characters                        *)
(***************************************************************************)

\* The characters str.strip(), lstrip() and split() without argument remove.
Whitespace == {" ", "\n", "\t", "\r"}

\* The characters rstrip(',\n') removes.
CommaNewline == {",", "\n"}

\* ord(c) of the characters the inputs are made of.
Ord(c) ==
    CASE c = "\n" -> 10  [] c = " " -> 32  [] c = "," -> 44
      [] c = "1" -> 49   [] c = "=" -> 61  [] c = "@" -> 64
      [] c = "S" -> 83   [] c = "T" -> 84  [] c = "_" -> 95
      [] c = "a" -> 97   [] c = "b" -> 98  [] c = "e" -> 101
      [] c = "k" -> 107  [] c = "l" -> 108 [] c = "n" -> 110
      [] c = "p" -> 112  [] c = "q" -> 113 [] c = "s" -> 115
      [] c = "t" -> 116  [] c = "u" -> 117 [] c = "v" -> 118
      [] c = "x" -> 120  [] c = "y" -> 121 [] c = "{" -> 123
      [] c = "}" -> 125

\* s.count(c)
StrCount(s, c) == Cardinality({i \in 1..Len(s) : s[i] = c})

\* line.count('{') - line.count('}')
BraceNet(line) == StrCount(line, "{") - StrCount(line, "}")

\* s.startswith(c)
StartsWith(s, c) == Len(s) > 0 /\ s[1] = c

\* s.lstrip(chars)
RECURSIVE LStripChars(_, _)
LStripChars(s, chars) ==
    IF s # <<>> /\ Head(s) \in chars THEN LStripChars(Tail(s), chars) ELSE s

\* s.rstrip(chars)
RECURSIVE RStripChars(_, _)
RStripChars(s, chars) ==
    IF s # <<>> /\ s[Len(s)] \in chars
    THEN RStripChars(SubSeq(s, 1, Len(s) - 1), chars)
    ELSE s

\* s.strip()
Strip(s) == RStripChars(LStripChars(s, Whitespace), Whitespace)

\* the index of the first c in s, or 0
FirstIndex(s, c) ==
    IF \E i \in 1..Len(s) : s[i] = c
    THEN CHOOSE i \in 1..Len(s) : s[i] = c /\ \A j \in 1..(i - 1) : s[j] # c
    ELSE 0

\* s.split(c, maxsplit=1): one part when c is not in s, else two
SplitOnce(s, c) ==
    LET i == FirstIndex(s, c)
    IN  IF i = 0 THEN <<s>>
        ELSE <<SubSeq(s, 1, i - 1), SubSeq(s, i + 1, Len(s))>>

\* len(s.split()): the number of maximal runs of non-whitespace characters
WordCount(s) ==
    Cardinality({i \in 1..Len(s) :
        s[i] \notin Whitespace /\ (i = 1 \/ s[i - 1] \in Whitespace)})

\* a < b on str: lexicographic by code point
RECURSIVE StrLess(_, _)
StrLess(a, b) ==
    IF b = <<>> THEN FALSE
    ELSE IF a = <<>> THEN TRUE
    ELSE IF Ord(Head(a)) # Ord(Head(b)) THEN Ord(Head(a)) < Ord(Head(b))
    ELSE StrLess(Tail(a), Tail(b))

\* ''.join(strings)
RECURSIVE Join(_)
Join(strings) ==
    IF strings = <<>> THEN <<>> ELSE Head(strings) \o Join(Tail(strings))

\* The lines iterating over a text file yields: each ends with its "\n",
\* but for a last line that has none.
RECURSIVE FileLines(_)
FileLines(text) ==
    LET i == FirstIndex(text, "\n")
    IN  IF text = <<>> THEN <<>>
        ELSE IF i = 0 THEN <<text>>
        ELSE <<SubSeq(text, 1, i)>> \o FileLines(SubSeq(text, i + 1, Len(text)))

(***************************************************************************)
(* The OrderedDict                                                          *)
(***************************************************************************)

KEntryType == <<"e", "n", "t", "r", "y", "_", "t", "y", "p", "e">>
KLabel == <<"l", "a", "b", "e", "l">>

Keys(d) == {d[i].key : i \in 1..Len(d)}

KeyIndex(d, k) == CHOOSE i \in 1..Len(d) : d[i].key = k

\* d[k]
Get(d, k) == d[KeyIndex(d, k)].val

\* d[k] = v: a new key goes last, an old key keeps its place
DictSet(d, k, v) ==
    IF k \in Keys(d)
    THEN [d EXCEPT ![KeyIndex(d, k)] = [key |-> k, val |-> v]]
    ELSE Append(d, [key |-> k, val |-> v])

(***************************************************************************)
(* next_entry_lines                                                         *)
(***************************************************************************)

\* The for loop of next_entry_lines over the lines left in the iterator.
\* Returns the lines collected, the lines left in the iterator, and whether
\* the loop was left by `break`.
RECURSIVE ScanLoop(_, _, _, _)
ScanLoop(rest, in_entry, n, lines) ==
    IF rest = <<>>
    THEN [lines |-> lines, rest |-> rest, broke |-> FALSE]
    ELSE LET line == Head(rest)
             n2 == n + BraceNet(line)
         IN  IF StartsWith(line, "@") /\ ~in_entry
             THEN ScanLoop(Tail(rest), TRUE, n2, Append(lines, line))
             ELSE IF ~in_entry
             THEN ScanLoop(Tail(rest), FALSE, n, lines)
             ELSE IF n2 = 0
             THEN [lines |-> Append(lines, line), rest |-> Tail(rest),
                   broke |-> TRUE]
             ELSE ScanLoop(Tail(rest), TRUE, n2, Append(lines, line))

next_entry_lines(iterable) == ScanLoop(iterable, FALSE, 0, <<>>)

(***************************************************************************)
(* group_entries, line by line                                              *)
(***************************************************************************)

\* entry_lines[0].split('{', maxsplit=1)
HeadParts(lines) == SplitOnce(lines[1], "{")

\* entry_type.strip()[1:]
EntryType(lines) ==
    LET t == Strip(HeadParts(lines)[1])
    IN  IF t = <<>> THEN <<>> ELSE Tail(t)

\* entry_label.lstrip().rstrip(',\n')
EntryLabel(lines) ==
    RStripChars(LStripChars(HeadParts(lines)[2], Whitespace), CommaNewline)

\* The dict after lines 114-122.
InitialDict(lines) ==
    DictSet(DictSet(<<>>, KEntryType, EntryType(lines)),
            KLabel, EntryLabel(lines))

\* not line.strip()
IsBlank(line) == Strip(line) = <<>>

\* key.strip() of line.split('=', maxsplit=1)
FieldKey(line) == Strip(SplitOnce(line, "=")[1])

\* val.lstrip().rstrip(',\n')
FieldVal(line) ==
    RStripChars(LStripChars(SplitOnce(line, "=")[2], Whitespace), CommaNewline)

\* A field test that forgets the removal set.
SkipField_OnlyMultiWord(key, rm) == WordCount(key) > 1

\* key in remove_fields or len(key.split()) > 1
SkipField(key, rm) == key \in rm \/ WordCount(key) > 1

\* entry_dict[cur_key] += ' ' + line.strip()
AppendToValue(d, k, line) == DictSet(d, k, Get(d, k) \o <<" ">> \o Strip(line))

(***************************************************************************)
(* dump_entry                                                               *)
(***************************************************************************)

\* '@' + entry_dict['entry_type'] + '{' + entry_dict['label'] + ',\n'
FirstLine(d) ==
    <<"@">> \o Get(d, KEntryType) \o <<"{">> \o Get(d, KLabel) \o <<",", "\n">>

\* key + ' = ' + val + ',\n'
FieldLine(f) == f.key \o <<" ", "=", " ">> \o f.val \o <<",", "\n">>

\* The items of the dict but the two reserved ones, in order.
FieldItems(d) == SelectSeq(d, LAMBDA f : f.key \notin {KEntryType, KLabel})

\* The list `lines` before line 175.
EntryLines(d) ==
    <<FirstLine(d)>> \o [i \in 1..Len(FieldItems(d)) |-> FieldLine(FieldItems(d)[i])]

\* A last line that loses one trailing comma only.
LastLine_OneComma(line) ==
    LET s == RStripChars(line, {"\n"})
    IN  (IF s # <<>> /\ s[Len(s)] = "," THEN SubSeq(s, 1, Len(s) - 1) ELSE s)
        \o <<"\n">>

\* lines[-1].rstrip(',\n') + '\n'
LastLine(line) == RStripChars(line, CommaNewline) \o <<"\n">>

\* The strings dump_entry hands to writelines.
dump_entry(d) ==
    LET ls == EntryLines(d)
    IN  SubSeq(ls, 1, Len(ls) - 1) \o <<LastLine(ls[Len(ls)])>>
        \o << <<"}", "\n", "\n">> >>

(***************************************************************************)
(* sorted(entries, key=lambda entry: entry['label'])                        *)
(***************************************************************************)

Label(d) == Get(d, KLabel)

\* An insertion that puts the entry before the entries of equal label.
InsertByLabel_BeforeEqual(s, e) ==
    LET after == {i \in 1..Len(s) : ~StrLess(Label(s[i]), Label(e))}
        p == IF after = {} THEN Len(s) + 1
             ELSE CHOOSE i \in after : \A j \in after : i <= j
    IN  SubSeq(s, 1, p - 1) \o <<e>> \o SubSeq(s, p, Len(s))

\* e goes before the first entry whose label is greater than its own.
InsertByLabel(s, e) ==
    LET after == {i \in 1..Len(s) : StrLess(Label(e), Label(s[i]))}
        p == IF after = {} THEN Len(s) + 1
             ELSE CHOOSE i \in after : \A j \in after : i <= j
    IN  SubSeq(s, 1, p - 1) \o <<e>> \o SubSeq(s, p, Len(s))

\* sorted() is stable: the entries, inserted in their order.
RECURSIVE SortedByLabel(_)
SortedByLabel(s) ==
    IF s = <<>> THEN <<>>
    ELSE InsertByLabel(SortedByLabel(SubSeq(s, 1, Len(s) - 1)), s[Len(s)])

(***************************************************************************)
(* The inputs                                                               *)
(***************************************************************************)

LStartY == <<"@", "a", "{", "y", ",", "\n">>
LStartX == <<"@", "b", "{", "x", ",", "\n">>
LOneLine == <<"@", "s", "{", "k", "=", "v", "}", "\n">>
LUrlOpen == <<" ", "u", " ", "=", " ", "{", "S", "\n">>
LTitleOpen == <<" ", "t", " ", "=", " ", "{", "S", "\n">>
LTwoWordOpen == <<"a", " ", "b", " ", "=", " ", "{", "S", "\n">>
LContinued == <<" ", " ", "T", "}", ",", "\n">>
LKept == <<" ", "k", " ", "=", " ", "v", ",", "\n">>
LLabel == <<"l", "a", "b", "e", "l", " ", "=", " ", "q", ",", "\n">>
LClose == <<"}", "\n">>
LBlank == <<"\n">>

\* The longest input, in lines.
MaxLines == 5

\* The sets of lines an input is made of: entries of different labels and a
\* one-line entry; fields of several lines, kept and removed; a field named
\* as a reserved key, a key of two words and blank lines.
LineSets ==
    { {LStartY, LStartX, LOneLine, LKept, LClose},
      {LStartY, LTitleOpen, LUrlOpen, LContinued, LKept, LClose},
      {LStartX, LLabel, LTwoWordOpen, LContinued, LBlank, LClose} }

\* The inputs of at most n lines.
InputsUpTo(n) == UNION {[1..k -> ls] : k \in 0..n, ls \in LineSets}

KUrl == <<"u">>

\* remove_fields: the field u, with or without the name of a reserved key.
RemovalSets == { {KUrl}, {KUrl, KLabel} }

(***************************************************************************)
(* The driver                                                               *)
(***************************************************************************)

NoDecl == [seen |-> FALSE, key |-> <<>>, kept |-> FALSE]

\* The state when the driver starts (lines 54-59), on one of the inputs given.
InitOn(inputs) ==
    /\ remove_fields \in RemovalSets
    /\ sort \in BOOLEAN
    /\ infile \in inputs
    /\ input = infile
    /\ outfile = <<>>
    /\ pc = "scan"
    /\ entry_lines = <<>>
    /\ broke = FALSE
    /\ li = 0
    /\ entry_dict = <<>>
    /\ num_open_braces = 0
    /\ skip_key = FALSE
    /\ cur_key = <<>>
    /\ entries = <<>>
    /\ sorted_entries = <<>>
    /\ di = 0
    /\ count = 0
    /\ reported = -1
    /\ scanned = <<>>
    /\ grouped = <<>>
    /\ written = <<>>
    /\ last_decl = NoDecl
    /\ run = 1
    /\ out1 = <<>>

Init == InitOn(InputsUpTo(MaxLines))

groupVars == <<li, entry_dict, num_open_braces, skip_key, cur_key, last_decl>>
sortVars == <<entries, sorted_entries, di>>
configVars == <<remove_fields, sort, input, run, out1>>

\* Lines 185-187 and 202-204: next_entry_lines returns an entry.
ScanEntry ==
    /\ pc = "scan"
    /\ LET r == next_entry_lines(infile)
       IN  /\ r.lines # <<>>
           /\ entry_lines' = r.lines
           /\ broke' = r.broke
           /\ infile' = r.rest
           /\ scanned' = Append(scanned, r.lines)
    /\ pc' = "call_group"
    /\ UNCHANGED <<outfile, groupVars, sortVars, count, reported, grouped,
                   written, configVars>>

\* Lines 186-192 and 203-204: next_entry_lines returns nothing; in sort mode
\* the entries are counted and sorted.
ScanNone ==
    /\ pc = "scan"
    /\ LET r == next_entry_lines(infile)
       IN  /\ r.lines = <<>>
           /\ infile' = r.rest
    /\ IF sort
       THEN /\ count' = Len(entries)
            /\ sorted_entries' = SortedByLabel(entries)
            /\ di' = 1
            /\ pc' = "sort_dump"
       ELSE /\ UNCHANGED <<count, sorted_entries, di>>
            /\ pc' = "report"
    /\ UNCHANGED <<outfile, entry_lines, broke, groupVars, entries, reported,
                   scanned, grouped, written, configVars>>

\* Lines 114-122: group_entries is called; a first line without '{' raises.
GroupBegin ==
    /\ pc = "call_group"
    /\ IF Len(HeadParts(entry_lines)) < 2
       THEN /\ pc' = "crashed"
            /\ UNCHANGED groupVars
       ELSE /\ pc' = "group"
            /\ entry_dict' = InitialDict(entry_lines)
            /\ num_open_braces' = 1
            /\ skip_key' = FALSE
            /\ cur_key' = <<>>
            /\ li' = 2
            /\ last_decl' = NoDecl
    /\ UNCHANGED <<infile, outfile, entry_lines, broke, sortVars, count,
                   reported, scanned, grouped, written, configVars>>

InLoop == pc = "group" /\ li <= Len(entry_lines)

driverVars == <<infile, outfile, entry_lines, broke, sortVars, count, reported,
                scanned, grouped, written, configVars>>

\* Lines 125-126: a blank line.
GroupBlank ==
    /\ InLoop
    /\ IsBlank(entry_lines[li])
    /\ li' = li + 1
    /\ UNCHANGED <<pc, entry_dict, num_open_braces, skip_key, cur_key, last_decl>>
    /\ UNCHANGED driverVars

\* Lines 128-131: at depth 1, the line closes the entry.
GroupBreak ==
    /\ InLoop
    /\ ~IsBlank(entry_lines[li])
    /\ num_open_braces = 1
    /\ num_open_braces + BraceNet(entry_lines[li]) = 0
    /\ num_open_braces' = 0
    /\ pc' = "group_ret"
    /\ UNCHANGED <<li, entry_dict, skip_key, cur_key, last_decl>>
    /\ UNCHANGED driverVars

\* Line 133: at depth 1, a line without '=' raises.
GroupNoEquals ==
    /\ InLoop
    /\ ~IsBlank(entry_lines[li])
    /\ num_open_braces = 1
    /\ num_open_braces + BraceNet(entry_lines[li]) # 0
    /\ Len(SplitOnce(entry_lines[li], "=")) < 2
    /\ num_open_braces' = num_open_braces + BraceNet(entry_lines[li])
    /\ pc' = "crashed"
    /\ UNCHANGED <<li, entry_dict, skip_key, cur_key, last_decl>>
    /\ UNCHANGED driverVars

\* A skipped field that leaves the flag as it was.
GroupSkipField_FlagKept ==
    /\ InLoop
    /\ ~IsBlank(entry_lines[li])
    /\ num_open_braces = 1
    /\ num_open_braces + BraceNet(entry_lines[li]) # 0
    /\ Len(SplitOnce(entry_lines[li], "=")) = 2
    /\ SkipField(FieldKey(entry_lines[li]), remove_fields)
    /\ num_open_braces' = num_open_braces + BraceNet(entry_lines[li])
    /\ last_decl' = [seen |-> TRUE, key |-> FieldKey(entry_lines[li]),
                     kept |-> FALSE]
    /\ li' = li + 1
    /\ UNCHANGED <<pc, entry_dict, cur_key, skip_key>>
    /\ UNCHANGED driverVars

\* Lines 128-137: at depth 1, a field that is removed or has a key of
\* several words.
GroupSkipField ==
    /\ InLoop
    /\ ~IsBlank(entry_lines[li])
    /\ num_open_braces = 1
    /\ num_open_braces + BraceNet(entry_lines[li]) # 0
    /\ Len(SplitOnce(entry_lines[li], "=")) = 2
    /\ SkipField(FieldKey(entry_lines[li]), remove_fields)
    /\ num_open_braces' = num_open_braces + BraceNet(entry_lines[li])
    /\ skip_key' = TRUE
    /\ last_decl' = [seen |-> TRUE, key |-> FieldKey(entry_lines[li]),
                     kept |-> FALSE]
    /\ li' = li + 1
    /\ UNCHANGED <<pc, entry_dict, cur_key>>
    /\ UNCHANGED driverVars

\* Lines 128-141: at depth 1, a field that is kept.
GroupKeepField ==
    /\ InLoop
    /\ ~IsBlank(entry_lines[li])
    /\ num_open_braces = 1
    /\ num_open_braces + BraceNet(entry_lines[li]) # 0
    /\ Len(SplitOnce(entry_lines[li], "=")) = 2
    /\ ~SkipField(FieldKey(entry_lines[li]), remove_fields)
    /\ num_open_braces' = num_open_braces + BraceNet(entry_lines[li])
    /\ skip_key' = FALSE
    /\ cur_key' = FieldKey(entry_lines[li])
    /\ entry_dict' = DictSet(entry_dict, FieldKey(entry_lines[li]),
                             FieldVal(entry_lines[li]))
    /\ last_decl' = [seen |-> TRUE, key |-> FieldKey(entry_lines[li]),
                     kept |-> TRUE]
    /\ li' = li + 1
    /\ UNCHANGED pc
    /\ UNCHANGED driverVars

\* Lines 143-146: not at depth 1; the line is added to the current field's
\* value unless the field is skipped. A current key the dict lacks raises.
GroupContinuation ==
    /\ InLoop
    /\ ~IsBlank(entry_lines[li])
    /\ num_open_braces # 1
    /\ num_open_braces' = num_open_braces + BraceNet(entry_lines[li])
    /\ IF skip_key
       THEN /\ li' = li + 1
            /\ UNCHANGED <<pc, entry_dict>>
       ELSE IF cur_key \in Keys(entry_dict)
       THEN /\ entry_dict' = AppendToValue(entry_dict, cur_key, entry_lines[li])
            /\ li' = li + 1
            /\ UNCHANGED pc
       ELSE /\ pc' = "crashed"
            /\ UNCHANGED <<li, entry_dict>>
    /\ UNCHANGED <<skip_key, cur_key, last_decl>>
    /\ UNCHANGED driverVars

Returning == pc = "group_ret" \/ (pc = "group" /\ li > Len(entry_lines))

\* Lines 148 and 188-189: group_entries returns, sort mode appends the dict.
ReturnAppend ==
    /\ Returning
    /\ sort
    /\ entries' = Append(entries, entry_dict)
    /\ grouped' = Append(grouped, entry_dict)
    /\ pc' = "scan"
    /\ UNCHANGED <<infile, outfile, entry_lines, broke, groupVars,
                   sorted_entries, di, count, reported, scanned, written,
                   configVars>>

\* Lines 148 and 205-207: group_entries returns, streaming mode dumps the
\* dict and counts it.
ReturnDump ==
    /\ Returning
    /\ ~sort
    /\ grouped' = Append(grouped, entry_dict)
    /\ outfile' = outfile \o dump_entry(entry_dict)
    /\ written' = Append(written, entry_dict)
    /\ count' = count + 1
    /\ pc' = "scan"
    /\ UNCHANGED <<infile, entry_lines, broke, groupVars, sortVars, reported,
                   scanned, configVars>>

\* Lines 194-195: sort mode dumps the next sorted entry.
DumpSorted ==
    /\ pc = "sort_dump"
    /\ di <= Len(sorted_entries)
    /\ outfile' = outfile \o dump_entry(sorted_entries[di])
    /\ written' = Append(written, sorted_entries[di])
    /\ di' = di + 1
    /\ UNCHANGED <<infile, pc, entry_lines, broke, groupVars, entries,
                   sorted_entries, count, reported, scanned, grouped, configVars>>

\* A report that comes when the last sorted entry is still to be dumped.
Report_BeforeLastDump ==
    /\ \/ pc = "report"
       \/ pc = "sort_dump" /\ di >= Len(sorted_entries)
    /\ reported' = count
    /\ pc' = "done"
    /\ UNCHANGED <<infile, outfile, entry_lines, broke, groupVars, sortVars,
                   count, scanned, grouped, written, configVars>>

\* Lines 211-215: the count is printed.
Report ==
    /\ \/ pc = "report"
       \/ pc = "sort_dump" /\ di > Len(sorted_entries)
    /\ reported' = count
    /\ pc' = "done"
    /\ UNCHANGED <<infile, outfile, entry_lines, broke, groupVars, sortVars,
                   count, scanned, grouped, written, configVars>>

Next ==
    \/ ScanEntry
    \/ ScanNone
    \/ GroupBegin
    \/ GroupBlank
    \/ GroupBreak
    \/ GroupNoEquals
    \/ GroupSkipField
    \/ GroupKeepField
    \/ GroupContinuation
    \/ ReturnAppend
    \/ ReturnDump
    \/ DumpSorted
    \/ Report

Spec == Init /\ [][Next]_vars

\* The runs with a weak fairness condition: the interpreter runs the script to
\* its end, with no step it waits on but reads and writes.
\* The longest input of the runs checked for termination, in lines.
MaxLinesFair == 3

InitFair == InitOn(InputsUpTo(MaxLinesFair))

FairSpec == InitFair /\ [][Next]_vars /\ WF_vars(Next)

\* The filter is run again, with the same options, on the file it wrote.
Rerun ==
    /\ pc = "done"
    /\ run = 1
    /\ run' = 2
    /\ out1' = outfile
    /\ infile' = FileLines(Join(outfile))
    /\ outfile' = <<>>
    /\ pc' = "scan"
    /\ entry_lines' = <<>>
    /\ broke' = FALSE
    /\ li' = 0
    /\ entry_dict' = <<>>
    /\ num_open_braces' = 0
    /\ skip_key' = FALSE
    /\ cur_key' = <<>>
    /\ entries' = <<>>
    /\ sorted_entries' = <<>>
    /\ di' = 0
    /\ count' = 0
    /\ reported' = -1
    /\ scanned' = <<>>
    /\ grouped' = <<>>
    /\ written' = <<>>
    /\ last_decl' = NoDecl
    /\ UNCHANGED <<remove_fields, sort, input>>

NextTwice ==
    \/ Next
    \/ Rerun

SpecTwice == Init /\ [][NextTwice]_vars

(***************************************************************************)
(* Properties                                                               *)
(***************************************************************************)

ReservedKeys == {KEntryType, KLabel}

\* The dicts group_entries has returned or is building.
DictsBuilt ==
    {grouped[i] : i \in 1..Len(grouped)}
        \cup (IF pc \in {"group", "group_ret"} THEN {entry_dict} ELSE {})

\* The key of a written string that holds a '=': the text before it, trimmed.
WrittenKeys ==
    {Strip(SplitOnce(outfile[i], "=")[1]) :
        i \in {j \in 1..Len(outfile) : FirstIndex(outfile[j], "=") # 0}}

\* C1 as stated: no dict group_entries builds holds a key of the removal set,
\* and no written field line has such a key.
C1_NoRemovedKeyAtAll ==
    /\ \A d \in DictsBuilt : Keys(d) \cap remove_fields = {}
    /\ WrittenKeys \cap remove_fields = {}

\* C1, amended: no dict group_entries builds holds a key of the removal set
\* other than the two reserved keys, and no written field line has a key of
\* the removal set.
C1_RemovedFieldsAbsent ==
    /\ \A d \in DictsBuilt : Keys(d) \cap remove_fields \subseteq ReservedKeys
    /\ WrittenKeys \cap remove_fields = {}

\* An entry with a removed field of two lines and a kept field was scanned,
\* decomposed and written.
C1_Witness ==
    /\ pc = "done"
    /\ written # <<>>
    /\ \E i \in 1..Len(scanned) :
        /\ Len(scanned[i]) >= 4
        /\ scanned[i][2] = LUrlOpen
        /\ scanned[i][3] = LContinued
        /\ scanned[i][4] = LKept
        /\ Keys(grouped[i]) = ReservedKeys \cup {<<"k">>}

\* s is t rearranged by the one-to-one map p of positions.
Permutes(p, s, t) ==
    /\ Len(s) = Len(t)
    /\ \A i, j \in 1..Len(s) : i # j => p[i] # p[j]
    /\ \A i \in 1..Len(s) : s[i] = t[p[i]]

\* The strings written are those of dump_entry for each dict written.
WrittenText == Join([i \in 1..Len(written) |-> Join(dump_entry(written[i]))])

\* C2: in sort mode the entries written are the decomposed entries rearranged,
\* non-decreasing by label, entries of equal label in their input order; in
\* streaming mode the i-th entry written is the i-th entry scanned.
C2_OrderInvariant ==
    /\ Join(outfile) = WrittenText
    /\ sort /\ pc = "done" =>
        \E p \in [1..Len(written) -> 1..Len(grouped)] :
            /\ Permutes(p, written, grouped)
            /\ \A i, j \in 1..Len(written) : i < j =>
                /\ ~StrLess(Label(written[j]), Label(written[i]))
                /\ Label(written[i]) = Label(written[j]) => p[i] < p[j]
    /\ ~sort =>
        /\ written = grouped
        /\ pc \in {"scan", "report", "done"} => Len(written) = Len(scanned)

\* Sort mode wrote two different entries of the same label.
C2_Witness ==
    /\ pc = "done"
    /\ sort
    /\ Len(written) = 2
    /\ Label(grouped[1]) = Label(grouped[2])
    /\ grouped[1] # grouped[2]

\* The lines that start with '@' outside any entry's braces.
RECURSIVE TopLevelEntries(_, _)
TopLevelEntries(lines, depth) ==
    IF lines = <<>> THEN 0
    ELSE IF depth <= 0
    THEN IF StartsWith(Head(lines), "@")
         THEN 1 + TopLevelEntries(Tail(lines), BraceNet(Head(lines)))
         ELSE TopLevelEntries(Tail(lines), 0)
    ELSE TopLevelEntries(Tail(lines), depth + BraceNet(Head(lines)))

\* C3: the count reported is the number of top-level entries of the input,
\* entries of one line included.
C3_CountAccuracy ==
    run = 1 /\ pc = "done" => reported = TopLevelEntries(input, 0)

\* The depth after each prefix of the lines stays positive inside an entry,
\* an entry opens with a line of one more '{' than '}', closes with a line
\* that takes the depth from 1 to 0, and each other line at depth 1 is
\* blank or declares a field with a key of one word.
RECURSIVE WellFormed(_, _)
WellFormed(lines, depth) ==
    IF lines = <<>> THEN depth = 0
    ELSE LET line == Head(lines)
             d2 == depth + BraceNet(line)
         IN  IF depth = 0
             THEN /\ IsBlank(line) \/ (StartsWith(line, "@") /\ d2 = 1)
                  /\ WellFormed(Tail(lines), d2)
             ELSE /\ d2 >= 0
                  /\ depth = 1 /\ d2 > 0 /\ ~IsBlank(line) =>
                        /\ FirstIndex(line, "=") # 0
                        /\ WordCount(FieldKey(line)) = 1
                  /\ WellFormed(Tail(lines), d2)

\* C4: the output of a second run on the output of the first, with the same
\* options, is the output of the first, for a well-formed input.
C4_Idempotent ==
    run = 2 /\ pc = "done" /\ WellFormed(input, 0) =>
        Join(outfile) = Join(out1)

KTitle == <<"t">>

\* C5: a value of several lines is the first fragment and the trimmed
\* continuation lines joined by single spaces; for 't = {S' and '  T},' it is
\* '{S T}', and that is what is written after 't = '.
C5_MultiLineValue ==
    \A i \in 1..Len(grouped) :
        Len(scanned[i]) >= 3 /\ scanned[i][2] = LTitleOpen
            /\ scanned[i][3] = LContinued =>
            /\ Get(grouped[i], KTitle) = <<"{", "S", " ", "T", "}">>
            /\ Get(grouped[i], KTitle) =
                  FieldVal(LTitleOpen) \o <<" ">> \o Strip(LContinued)

\* The depth after the first k lines.
RECURSIVE DepthAfter(_, _)
DepthAfter(lines, k) ==
    IF k = 0 THEN 0 ELSE DepthAfter(lines, k - 1) + BraceNet(lines[k])

\* C6: an entry next_entry_lines returns after a `break` starts with a line
\* that starts with '@', has as many '{' as '}', and ends at the first line,
\* from its first on, where the depth is zero.
C6_ScannerTermination ==
    pc = "call_group" /\ broke =>
        /\ StartsWith(entry_lines[1], "@")
        /\ DepthAfter(entry_lines, Len(entry_lines)) = 0
        /\ \A k \in 1..(Len(entry_lines) - 1) : DepthAfter(entry_lines, k) # 0

\* s with its last n characters cut.
CutEnd(s, n) == SubSeq(s, 1, Len(s) - n)

\* line is full (which ends in ",\n") without the commas at its end.
CommaLess(line, full) ==
    \E n \in 1..(Len(full) - 1) :
        /\ line = CutEnd(full, n + 1) \o <<"\n">>
        /\ \A i \in (Len(full) - n)..(Len(full) - 1) : full[i] = ","
        /\ CutEnd(full, n + 1) = <<>> \/ full[Len(full) - n - 1] # ","

\* The shape of what dump_entry writes for the dict d.
Shape(out, d) ==
    LET fs == FieldItems(d)
        n == Len(fs)
        full == [i \in 1..(n + 1) |->
                    IF i = 1
                    THEN <<"@">> \o Get(d, KEntryType) \o <<"{">>
                            \o Get(d, KLabel) \o <<",", "\n">>
                    ELSE fs[i - 1].key \o <<" ", "=", " ">> \o fs[i - 1].val
                            \o <<",", "\n">>]
    IN  /\ Len(out) = n + 2
        /\ \A i \in 1..n : out[i] = full[i]
        /\ CommaLess(out[n + 1], full[n + 1])
        /\ out[n + 2] = <<"}", "\n", "\n">>

\* C7: dump_entry writes '@type{label,', a line 'key = value,' for each field
\* that is not reserved, in the dict's order, then '}' and a blank line; the
\* line before the '}' has no comma at its end, and is the first line when
\* the dict has no such field.
C7_SerializerShape ==
    /\ Join(outfile) = WrittenText
    /\ \A i \in 1..Len(written) : Shape(dump_entry(written[i]), written[i])

\* An entry without fields was written, and one whose last value ends in a
\* comma.
C7_Witness ==
    /\ pc = "done"
    /\ \E i \in 1..Len(written) : FieldItems(written[i]) = <<>>
    /\ \E i \in 1..Len(written) :
        LET fs == FieldItems(written[i])
        IN  /\ fs # <<>>
            /\ fs[Len(fs)].val # <<>>
            /\ fs[Len(fs)].val[Len(fs[Len(fs)].val)] = ","

\* C8: the first two keys of a dict group_entries returns are 'entry_type'
\* and 'label', with the type and the label of the entry's first line.
C8_ReservedKeys ==
    \A i \in 1..Len(grouped) :
        /\ Len(grouped[i]) >= 2
        /\ grouped[i][1] = [key |-> KEntryType, val |-> EntryType(scanned[i])]
        /\ grouped[i][2] = [key |-> KLabel, val |-> EntryLabel(scanned[i])]

\* C9: a run ends, done unless group_entries raised; once done, each entry
\* scanned was decomposed once and written once, and an input without
\* entries leaves the output empty.
C9_Lifecycle ==
    /\ <>(pc \in {"done", "crashed"})
    /\ [](pc = "done" =>
            /\ next_entry_lines(infile).lines = <<>>
            /\ Len(grouped) = Len(scanned)
            /\ Len(written) = Len(scanned)
            /\ reported = Len(scanned)
            /\ \E p \in [1..Len(written) -> 1..Len(grouped)] :
                   Permutes(p, written, grouped)
            /\ Join(outfile) = WrittenText
            /\ scanned = <<>> => outfile = <<>>)

\* A run is done with two entries scanned and written.
C9_Witness ==
    /\ pc = "done"
    /\ Len(scanned) = 2
    /\ Len(written) = 2

\* group_entries is at a line it takes as a continuation line.
AtContinuation ==
    /\ InLoop
    /\ ~IsBlank(entry_lines[li])
    /\ num_open_braces # 1

\* C10: a continuation line is added only when the last field declared was
\* kept, and then to that field's value alone, which is then in the dict;
\* the lines that continue a skipped field change nothing.
C10_Continuation ==
    [][AtContinuation =>
        /\ pc' # "crashed"
        /\ last_decl.seen
        /\ IF last_decl.kept
           THEN /\ cur_key = last_decl.key
                /\ last_decl.key \in Keys(entry_dict)
                /\ Len(entry_dict') = Len(entry_dict)
                /\ \A i \in 1..Len(entry_dict) :
                     entry_dict'[i] =
                        IF entry_dict[i].key = last_decl.key
                        THEN [key |-> last_decl.key,
                              val |-> entry_dict[i].val \o <<" ">>
                                        \o Strip(entry_lines[li])]
                        ELSE entry_dict[i]
           ELSE entry_dict' = entry_dict]_vars

\* The second line of a kept field has been added to its value, and later a
\* line that continues a removed field has been passed over.
C10_Witness ==
    /\ pc = "group"
    /\ li = 6
    /\ entry_lines[2] = LTitleOpen
    /\ entry_lines[3] = LContinued
    /\ entry_lines[4] = LUrlOpen
    /\ entry_lines[5] = LContinued
    /\ Get(entry_dict, KTitle) # FieldVal(LTitleOpen)

====
